---- MODULE Spec2Model ----
(***************************************************************************)
(* findl: the license-resolution pipeline of src/index.ts (latest          *)
(* iteration, lines 499-1205) and src/unnamed/part_003 (Utils).            *)
(*                                                                         *)
(* Strings are sequences of tokens: a token is a maximal piece of text     *)
(* that none of the program's literal patterns splits, so that replace(),  *)
(* includes() and indexOf() are computed on the token sequence as the      *)
(* code computes them on characters.                                       *)
(***************************************************************************)
EXTENDS Integers, Sequences, FiniteSets, TLC

\* ------------------------------------------------------------------------
\* JavaScript values

\* null and undefined, as strings no real string is equal to
Null == <<"<null>">>
Undefined == <<"<undefined>">>
\* a value that is not a string (an object), e.g. {type: 'MIT'} as a license field
NonString == <<"<object>">>
EmptyString == <<>>

IsNullish(v) == v = Null \/ v = Undefined
Truthy(v) == ~IsNullish(v) /\ v # EmptyString

\* a ?? b
Coalesce(a, b) == IF IsNullish(a) THEN b ELSE a

\* ------------------------------------------------------------------------
\* String operations

\* s.indexOf(pat): the first position (1-based here) where pat occurs, 0 if none
IndexOf(s, pat) ==
    LET hits == {i \in 1..(Len(s) - Len(pat) + 1) : SubSeq(s, i, i + Len(pat) - 1) = pat}
    IN IF hits = {} THEN 0 ELSE CHOOSE i \in hits : \A j \in hits : i <= j

\* s.includes(pat)
Includes(s, pat) == IndexOf(s, pat) # 0

\* s.replace(pat, rep) with a string pattern: only the first occurrence
ReplaceFirst(s, pat, rep) ==
    LET i == IndexOf(s, pat)
    IN IF i = 0 THEN s
       ELSE SubSeq(s, 1, i - 1) \o rep \o SubSeq(s, i + Len(pat), Len(s))

\* ------------------------------------------------------------------------
\* Constants of the program

\* one worker too many
ConcurrencyPlusOne == 4 + 1

Concurrency == 4

\* one retry too many
MaxTriesPlusOne == 3 + 1

MaxTries == 3

LicenseFileNames ==
    << "LICENSE", "LICENSE.txt", "license", "License", "license.md",
       "License.md", "LICENSE.md", "LICENSE-MIT.txt", "license-mit" >>

PrimaryBranchNames == << "main", "master" >>

LicenseTypes ==
    { "AFL-3.0", "Apache-2.0", "Artistic-2.0", "BSL-1.0", "BSD-2-Clause",
      "BSD-3-Clause", "BSD-3-Clause-Clear", "BSD-4-Clause", "0BSD", "CC",
      "CC0-1.0", "CC-BY-4.0", "CC-BY-SA-4.0", "WTFPL", "ECL-2.0", "EPL-1.0",
      "EPL-2.0", "EUPL-1.1", "AGPL-3.0", "GPL", "GPL-2.0", "GPL-3.0", "LGPL",
      "LGPL-2.1", "LGPL-3.0", "ISC", "LPPL-1.3c", "MS-PL", "MIT", "MPL-2.0",
      "OSL-3.0", "PostgreSQL", "OFL-1.1", "NCSA", "Unlicense", "Zlib",
      "Standard 'no charge'" }

InvalidLicenseCharacters == { "/", "'", "\"", ":" }

\* the identifiers looked for on the pub.dev page, in list order
LicensesToCheck ==
    << "MIT", "BSD-3-Clause", "BSD-2-Clause", "Apache-2.0", "AGPL-3.0-or-later",
       "AGPL-3.0-only", "GPL-3.0-or-later", "GPL-3.0-only", "LGPL-3.0-or-later",
       "LGPL-3.0-only", "MPL-2.0", "BSL-1.0", "Unlicense" >>

\* ------------------------------------------------------------------------
\* Utils

\* prettyGitURL: ten replace() calls in sequence, each on the first occurrence
prettyGitURL(repo) ==
    IF Truthy(repo) /\ repo # NonString
    THEN LET r1 == ReplaceFirst(repo, <<"git+">>, <<>>)
             r2 == ReplaceFirst(r1, <<"git@">>, <<"https://">>)
             r3 == ReplaceFirst(r2, <<"git://">>, <<"https://">>)
             r4 == ReplaceFirst(r3, <<"github.com", ":">>, <<"github.com", "/">>)
             r5 == ReplaceFirst(r4, <<"github", ":">>, <<"github.com", "/">>)
             r6 == ReplaceFirst(r5, <<"gitlab.com", ":">>, <<"gitlab.com", "/">>)
             r7 == ReplaceFirst(r6, <<"gitlab", ":">>, <<"gitlab.com", "/">>)
             r8 == ReplaceFirst(r7, <<"bitbucket.org", ":">>, <<"bitbucket.org", "/">>)
             r9 == ReplaceFirst(r8, <<"bitbucket", ":">>, <<"bitbucket.org", "/">>)
         IN ReplaceFirst(r9, <<".git">>, <<>>)
    ELSE repo

\* the scheme tokens new URL() accepts at the start of a string
Schemes == { "https://", "http://", "ssh://" }

\* safeURL(value).protocol === null: new URL(value) threw
ProtocolIsNull(value) ==
    ~(Len(value) >= 2 /\ value[1] \in Schemes /\ value[2] \notin (Schemes \cup {"/", ":"}))

\* validateLicenseName
\* value?.includes(x) on a value that is not a string is a TypeError
validateLicenseNameThrows(value) == value = NonString

\* every declared string is kept
validateLicenseNameKeepsAll(value) == value

validateLicenseName(value) ==
    LET isKnown == ~IsNullish(value) /\ \E t \in LicenseTypes : Includes(value, <<t>>)
        l == IF isKnown THEN value ELSE Undefined
    IN IF ~Truthy(l) /\ ~IsNullish(value)
          /\ \E c \in InvalidLicenseCharacters : Includes(value, <<c>>)
       THEN Undefined
       ELSE l

\* ------------------------------------------------------------------------
\* getRepoLicense: the repository path the hosting API is asked about

\* repo.match(/^(?:https:\/\/github.com\/|github:)([^/]+\/[^/]+)/)
GithubPrefixLen(repo) ==
    IF Len(repo) >= 3 /\ SubSeq(repo, 1, 3) = <<"https://", "github.com", "/">> THEN 3
    ELSE IF Len(repo) >= 2 /\ SubSeq(repo, 1, 2) = <<"github", ":">> THEN 2
    ELSE 0

HasGithubRepoPath(repo) ==
    LET n == GithubPrefixLen(repo)
    IN /\ n > 0
       /\ \E p \in (n + 2)..(Len(repo) - 1) :
            /\ repo[p] = "/"
            /\ \A q \in (n + 1)..(p - 1) : repo[q] # "/"
            /\ repo[p + 1] # "/"

\* ------------------------------------------------------------------------
\* validateLicenseURL: the candidate URL of one (branch, filename) pair

HasBranchHint(repoURL) ==
    \E b \in 1..Len(PrimaryBranchNames) : Includes(repoURL, <<"/", PrimaryBranchNames[b], "/">>)

\* every host is treated like GitHub and a branch in the repository URL is not noticed
UrlToCheckBlobOnly(repoURL, primaryBranch, license) ==
    repoURL \o <<"/", "blob", "/", primaryBranch, "/", license>>

UrlToCheck(repoURL, primaryBranch, license) ==
    IF HasBranchHint(repoURL)
    THEN repoURL \o <<"/", license>>
    ELSE repoURL \o <<"/", IF Includes(repoURL, <<"bitbucket.org">>) THEN "src" ELSE "blob",
                      "/", primaryBranch, "/", license>>

\* path.join(path.relative(cwd, queueItem.parent), license)
LocalLicensePath(parent, license) == parent \o <<"/", license>>

\* ------------------------------------------------------------------------
\* The outside world: what each external call answers

\* where a moved license file is redirected to
FinalURL == <<"https://", "cdn.example", "/", "final">>

\* the stations of a license file that has moved more than once
FirstHopURL == <<"https://", "cdn.example", "/", "first">>
SecondHopURL == <<"https://", "cdn.example", "/", "second">>

ServerKinds ==
    { "none", "main", "master_md", "limited", "flaky", "moved", "moved_noloc",
      "moved_limited", "loop", "down", "broken" }

\* number of requests a flaky host rejects with 429 before it answers normally
FlakyRejects == 2

IsMainLicense(url) ==
    /\ Len(url) >= 2
    /\ url[Len(url)] = "LICENSE"
    /\ Includes(url, <<"/", "main", "/">>)

IsMasterMd(url) ==
    /\ Len(url) >= 2
    /\ url[Len(url)] = "license.md"
    /\ Includes(url, <<"/", "master", "/">>)

Response(code, location) == [statusCode |-> code, location |-> location]

\* the HTTP answer of a host of the given kind to the n-th request (n >= 1) it
\* receives for a record; statusCode -1 is the request's 'error' event
ServerAnswer(kind, url, n) ==
    IF ProtocolIsNull(url) THEN Response(-1, Undefined)
    ELSE CASE kind = "none" -> Response(404, Undefined)
           [] kind = "main" ->
                IF IsMainLicense(url) THEN Response(200, Undefined) ELSE Response(404, Undefined)
           [] kind = "master_md" ->
                IF IsMasterMd(url) THEN Response(200, Undefined) ELSE Response(404, Undefined)
           [] kind = "limited" -> Response(429, Undefined)
           [] kind = "flaky" ->
                IF n <= FlakyRejects THEN Response(429, Undefined)
                ELSE IF IsMainLicense(url) THEN Response(200, Undefined)
                ELSE Response(404, Undefined)
           [] kind = "moved" ->
                IF url = FinalURL THEN Response(200, Undefined)
                ELSE IF IsMainLicense(url) THEN Response(301, FinalURL)
                ELSE Response(404, Undefined)
           [] kind = "moved_noloc" ->
                IF IsMainLicense(url) THEN Response(302, Undefined) ELSE Response(404, Undefined)
           [] kind = "moved_limited" ->
                IF url = FinalURL THEN Response(429, Undefined)
                ELSE IF IsMainLicense(url) THEN Response(307, FinalURL)
                ELSE Response(404, Undefined)
           [] kind = "moved2_limited" ->
                IF url = FinalURL THEN Response(429, Undefined)
                ELSE IF url = FirstHopURL THEN Response(302, FinalURL)
                ELSE IF IsMainLicense(url) THEN Response(301, FirstHopURL)
                ELSE Response(404, Undefined)
           [] kind = "moved3_limited" ->
                IF url = FinalURL THEN Response(429, Undefined)
                ELSE IF url = SecondHopURL THEN Response(308, FinalURL)
                ELSE IF url = FirstHopURL THEN Response(302, SecondHopURL)
                ELSE IF IsMainLicense(url) THEN Response(301, FirstHopURL)
                ELSE Response(404, Undefined)
           [] kind = "loop" -> Response(308, url)
           [] kind = "down" -> Response(-1, Undefined)
           [] OTHER -> Response(500, Undefined)

\* ping: the {result, status} the promise resolves with
BoolTrue == <<"<true>">>
BoolFalse == <<"<false>">>

ping(res) ==
    CASE res.statusCode = 200 -> [result |-> BoolTrue, status |-> 200]
      [] res.statusCode \in {301, 302, 307, 308} ->
            [result |-> IF res.location # Undefined THEN res.location ELSE BoolTrue,
             status |-> res.statusCode]
      [] OTHER -> [result |-> BoolFalse, status |-> res.statusCode]

IsString(v) == v \notin {BoolTrue, BoolFalse, Null, Undefined, NonString}

\* the hosting API's answers to licenses.getForRepo
ApiKinds == { "message", "license", "noassertion", "nourl", "nodata" }

DownloadURL == <<"https://", "raw.githubusercontent.com", "/", "LICENSE">>

\* {license, licenseUrl} as getRepoLicense computes it from the answer
RepoLicenseOf(kind) ==
    CASE kind = "license" -> [license |-> <<"MIT">>, licenseUrl |-> DownloadURL]
      [] kind = "noassertion" -> [license |-> Undefined, licenseUrl |-> DownloadURL]
      [] kind = "nourl" -> [license |-> <<"MIT">>, licenseUrl |-> Null]
      [] kind = "unlisted" -> [license |-> <<"Vim">>, licenseUrl |-> DownloadURL]
      [] OTHER -> [license |-> Undefined, licenseUrl |-> Undefined]

NoRepoLicense == [license |-> Undefined, licenseUrl |-> Undefined]

\* ------------------------------------------------------------------------
\* One resolver invocation.  Between two awaits the code runs without
\* interruption, so each operator below takes the invocation's view
\*   s = [env, item, ctx, pc, useGithubAPI, postCommandLog, requests, apiCalls,
\*        registryCalls]
\* from one await to the next one (s.pc names the await it stops at), to
\* "finish" (result.push and cb() come next) or to "crashed" (an exception
\* left the async function: its promise rejects and cb() is never called).

NoCtx ==
    [stage |-> "none", file |-> 0, branch |-> 0, url |-> Null, urlToCheck |-> Null,
     tryCount |-> 0, sent |-> 0]

Finish(s) == [s EXCEPT !.pc = "finish"]

Crash(s) == [s EXCEPT !.pc = "crashed"]

\* pingLicenseURL(urlToCheck, tryCount): the HEAD request goes out, the call awaits
SendPing(s, url, tryCount) ==
    [s EXCEPT !.pc = "ping",
              !.ctx.url = url,
              !.ctx.tryCount = tryCount,
              !.ctx.sent = @ + 1,
              !.requests = @ + 1]

\* one iteration of validateLicenseURL's loop over PrimaryBranchNames
ProbeBranch(s, b) ==
    LET u == UrlToCheck(s.item.repositoryURL, PrimaryBranchNames[b],
                        LicenseFileNames[s.ctx.file])
        t == [s EXCEPT !.ctx.branch = b, !.ctx.urlToCheck = u, !.ctx.sent = 0]
    IN SendPing(t, u, 0)

RECURSIVE StartValidate(_, _, _)

\* processPubspecQueue from "if (!queueItem.license)" on
DartScrape(s) ==
    IF ~Truthy(s.item.license)
    THEN [s EXCEPT !.pc = "pubPage"]
    ELSE Finish(s)

\* the reason is recorded but the flag is left unknown
AfterWebLoopReasonOnly(s) ==
    IF s.item.licenseUrlIsValid = "null"
    THEN Finish([s EXCEPT !.item.missingLicenseReason = "no-web"])
    ELSE Finish(s)

\* the final verdict is forgotten
AfterWebLoopForgetful(s) == Finish(s)

\* processNPMQueue: "Still haven't found a license."
AfterWebLoop(s) ==
    IF s.item.licenseUrlIsValid = "null"
    THEN Finish([s EXCEPT !.item.licenseUrlIsValid = "false",
                          !.item.missingLicenseReason = "no-web"])
    ELSE Finish(s)

\* no URL is probed once the hosting API has been switched off
NpmAfterRepoLicenseGivesUp(s, repoLicense) ==
    LET t == IF Truthy(repoLicense.license) /\ Truthy(repoLicense.licenseUrl)
             THEN [s EXCEPT !.item.licenseUrlIsValid = "true",
                            !.item.licenseUrl = repoLicense.licenseUrl,
                            !.item.license = repoLicense.license]
             ELSE s
    IN IF t.item.licenseUrlIsValid # "true" /\ s.useGithubAPI
       THEN StartValidate(t, "web", 1)
       ELSE AfterWebLoop(t)

\* processNPMQueue once getRepoLicense has returned repoLicense
NpmAfterRepoLicense(s, repoLicense) ==
    LET t == IF Truthy(repoLicense.license) /\ Truthy(repoLicense.licenseUrl)
             THEN [s EXCEPT !.item.licenseUrlIsValid = "true",
                            !.item.licenseUrl = repoLicense.licenseUrl,
                            !.item.license = repoLicense.license]
             ELSE s
    IN IF t.item.licenseUrlIsValid # "true"
       THEN StartValidate(t, "web", 1)
       ELSE AfterWebLoop(t)

\* processPubspecQueue once getRepoLicense has returned licenseData
DartAfterRepoLicense(s, licenseData) ==
    LET t == [s EXCEPT !.item.license = Coalesce(licenseData.license, Undefined),
                       !.item.licenseUrl =
                           Coalesce(licenseData.licenseUrl, Coalesce(s.item.licenseUrl, Null))]
    IN IF ~Truthy(t.item.licenseUrl)
       THEN StartValidate(t, "dart", 1)
       ELSE DartScrape([t EXCEPT !.item.licenseUrlIsValid = "true"])

AfterRepoLicense(s, repoLicense) ==
    IF s.env.path = "dart"
    THEN DartAfterRepoLicense(s, repoLicense)
    ELSE NpmAfterRepoLicense(s, repoLicense)

\* the process-wide flag is not consulted
GetRepoLicenseUnlatched(s) ==
    IF Truthy(s.item.repositoryURL) /\ HasGithubRepoPath(s.item.repositoryURL)
    THEN [s EXCEPT !.pc = "api", !.apiCalls = @ + 1]
    ELSE AfterRepoLicense(s, NoRepoLicense)

\* getRepoLicense(repo) up to its await, or to its return when no request is made
GetRepoLicense(s) ==
    IF Truthy(s.item.repositoryURL) /\ s.useGithubAPI
       /\ HasGithubRepoPath(s.item.repositoryURL)
    THEN [s EXCEPT !.pc = "api", !.apiCalls = @ + 1]
    ELSE AfterRepoLicense(s, NoRepoLicense)

\* processNPMQueue: "No local license was found :/, so check the web."
CheckWeb(s) ==
    IF s.item.licenseUrlIsValid = "null"
    THEN GetRepoLicense(s)
    ELSE Finish(s)

\* the caller of validateLicenseURL, once it has returned ret: the loop over the local
\* files, the loop of the web check, a call on its own, or the loop of the Dart path
AfterValidate(s, ret) ==
    CASE s.ctx.stage = "local" ->
            CheckWeb(IF ~ret
                     THEN [s EXCEPT !.item.licenseUrl =
                               LocalLicensePath(s.item.parent, LicenseFileNames[s.ctx.file])]
                     ELSE s)
      [] s.ctx.stage = "web" ->
            IF ret \/ s.ctx.file = Len(LicenseFileNames)
            THEN AfterWebLoop(s)
            ELSE StartValidate(s, "web", s.ctx.file + 1)
      [] s.ctx.stage = "call" ->
            [s EXCEPT !.pc = IF ret THEN "returnedTrue" ELSE "returnedFalse"]
      [] OTHER ->
            IF ret \/ s.ctx.file = Len(LicenseFileNames)
            THEN DartScrape(s)
            ELSE StartValidate(s, "dart", s.ctx.file + 1)

\* the stored verdict is not consulted: every call probes
StartValidateAlwaysProbes(s, stage, f) ==
    ProbeBranch([s EXCEPT !.ctx.stage = stage, !.ctx.file = f], 1)

\* validateLicenseURL(queueItem, LicenseFileNames[f]) up to its first await
StartValidate(s, stage, f) ==
    LET t == [s EXCEPT !.ctx.stage = stage, !.ctx.file = f]
    IN IF t.item.licenseUrlIsValid # "null"
       THEN AfterValidate(t, t.item.licenseUrlIsValid = "true")
       ELSE ProbeBranch(t, 1)

\* the URL that finally answered is stored, not the candidate
AfterPingLicenseURLStoresTarget(s, urlExists) ==
    IF urlExists # BoolFalse
    THEN AfterValidate([s EXCEPT !.item.licenseUrl = s.ctx.url], TRUE)
    ELSE [s EXCEPT !.pc = "wait200"]

\* validateLicenseURL once pingLicenseURL has returned urlExists
AfterPingLicenseURL(s, urlExists) ==
    IF urlExists # BoolFalse
    THEN LET licenseUrl == IF IsString(urlExists) THEN urlExists ELSE s.ctx.urlToCheck
         IN AfterValidate(
                [s EXCEPT !.item.licenseUrl =
                              Coalesce(licenseUrl, <<LicenseFileNames[s.ctx.file]>>)],
                TRUE)
    ELSE [s EXCEPT !.pc = "wait200"]

\* validateLicenseURL after "await wait(200)": the next branch, or return false
AfterWait200(s) ==
    IF s.ctx.branch < Len(PrimaryBranchNames)
    THEN ProbeBranch(s, s.ctx.branch + 1)
    ELSE AfterValidate(s, FALSE)

\* redirects count against the retry limit: after MaxTries hops the chain gives up
AfterPingDepthGuard(s, r) ==
    IF IsString(r.result) /\ s.ctx.tryCount < MaxTries
    THEN SendPing(s, r.result, s.ctx.tryCount + 1)
    ELSE IF r.result = BoolFalse /\ r.status = 429 /\ s.ctx.tryCount < MaxTries
    THEN [s EXCEPT !.pc = "backoff"]
    ELSE AfterPingLicenseURL(s, IF IsString(r.result) THEN BoolFalse ELSE r.result)

\* a redirect hop does not count as an attempt
AfterPingHopsNotCounted(s, r) ==
    IF IsString(r.result)
    THEN SendPing(s, r.result, s.ctx.tryCount)
    ELSE IF r.result = BoolFalse /\ r.status = 429 /\ s.ctx.tryCount < MaxTries
    THEN [s EXCEPT !.pc = "backoff"]
    ELSE AfterPingLicenseURL(s, r.result)

\* pingLicenseURL once ping has resolved with r
AfterPing(s, r) ==
    IF IsString(r.result)
    THEN SendPing(s, r.result, s.ctx.tryCount + 1)
    ELSE IF r.result = BoolFalse /\ r.status = 429 /\ s.ctx.tryCount < MaxTries
    THEN [s EXCEPT !.pc = "backoff"]
    ELSE AfterPingLicenseURL(s, r.result)

\* pingLicenseURL after "await wait(2000)"
AfterBackoff(s) == SendPing(s, s.ctx.url, s.ctx.tryCount + 1)

\* `${v}` and v + '...': null and undefined turn into their names
ToStr(v) == IF v = Undefined THEN <<"undefined">> ELSE IF v = Null THEN <<"null">> ELSE v

\* the repository check is skipped: the web is searched whatever the URL is
CheckRepositoryUnguarded(s) == CheckWeb(s)

\* processNPMQueue from "if (queueItem.repositoryURL)" on; readdirSync does not suspend
CheckRepository(s) ==
    IF Truthy(s.item.repositoryURL)
    THEN LET found == {f \in 1..Len(LicenseFileNames) : LicenseFileNames[f] \in s.env.localFiles}
         IN IF found # {}
            THEN StartValidate(s, "local", CHOOSE f \in found : \A g \in found : f <= g)
            ELSE CheckWeb(s)
    ELSE Finish([s EXCEPT !.item.licenseUrlIsValid = "false",
                          !.item.missingLicenseReason = "missing-repo"])

\* the manifest is read whether it exists or not
AfterPathExistsReadsAnyway(s) == [s EXCEPT !.pc = "readJSON"]

\* processNPMQueue once fs.pathExists(packageJsonPath) has answered
AfterPathExists(s) ==
    IF s.env.manifest = "absent"
    THEN Finish([s EXCEPT !.item.licenseUrlIsValid = "false",
                          !.item.missingLicenseReason = "no-local"])
    ELSE [s EXCEPT !.pc = "readJSON"]

\* processNPMQueue once fs.readJSON has answered (or thrown)
AfterReadJSON(s) ==
    IF s.env.manifest = "unreadable" THEN Crash(s)
    ELSE LET t1 == [s EXCEPT !.item.description = s.env.description]
         IN IF validateLicenseNameThrows(s.env.license) THEN Crash(t1)
            ELSE LET url == IF s.env.repoKind = "none" THEN Null
                            ELSE prettyGitURL(s.env.repoUrl)
                     directory == IF s.env.repoKind = "object" THEN s.env.repoDir ELSE Null
                     repositoryURL == IF Truthy(directory)
                                      THEN ToStr(url) \o <<"/", "blob", "/", "main", "/">>
                                               \o directory
                                      ELSE url
                     t2 == [t1 EXCEPT !.item.license = validateLicenseName(s.env.license),
                                      !.item.repositoryURL = repositoryURL]
                 IN IF ProtocolIsNull(Coalesce(repositoryURL, EmptyString))
                    THEN [t2 EXCEPT !.pc = "registry", !.registryCalls = @ + 1]
                    ELSE CheckRepository(t2)

\* processNPMQueue once packageJson(name).catch(e => null) has answered
AfterRegistry(s) ==
    IF s.env.registry = "repo"
    THEN CheckRepository([s EXCEPT !.item.repositoryURL = prettyGitURL(s.env.registryUrl)])
    ELSE CheckRepository(s)

\* getRepoLicense once licenses.getForRepo(...).catch(e => e) has answered
ApiMessage == "API rate limit exceeded"

\* the answers that carry a message: the quota error and the 404 of a repository
\* without a license
ApiErrors == { "message", "notfound" }

ApiMessageOf(kind) == IF kind = "notfound" THEN "Not Found" ELSE ApiMessage

\* an answer without an error switches the API on again
AfterApiReenables(s) ==
    IF s.env.api \in ApiErrors
    THEN AfterRepoLicense(
             [s EXCEPT !.postCommandLog =
                           IF \E k \in 1..Len(@) : @[k] = ApiMessageOf(s.env.api) THEN @
                           ELSE Append(@, ApiMessageOf(s.env.api)),
                       !.useGithubAPI = FALSE],
             NoRepoLicense)
    ELSE AfterRepoLicense([s EXCEPT !.useGithubAPI = TRUE], RepoLicenseOf(s.env.api))

\* only the quota error switches the API off
AfterApiQuotaOnly(s) ==
    IF s.env.api = "message"
    THEN AfterRepoLicense(
             [s EXCEPT !.postCommandLog =
                           IF \E k \in 1..Len(@) : @[k] = ApiMessage THEN @
                           ELSE Append(@, ApiMessage),
                       !.useGithubAPI = FALSE],
             NoRepoLicense)
    ELSE AfterRepoLicense(s, RepoLicenseOf(s.env.api))

AfterApi(s) ==
    IF s.env.api \in ApiErrors
    THEN AfterRepoLicense(
             [s EXCEPT !.postCommandLog =
                           IF \E k \in 1..Len(@) : @[k] = ApiMessageOf(s.env.api) THEN @
                           ELSE Append(@, ApiMessageOf(s.env.api)),
                       !.useGithubAPI = FALSE],
             NoRepoLicense)
    ELSE AfterRepoLicense(s, RepoLicenseOf(s.env.api))

\* processPubspecQueue from "if (queueItem.repositoryURL)" on
DartAfterPubspec(s) ==
    IF Truthy(s.item.repositoryURL)
    THEN GetRepoLicense(s)
    ELSE DartScrape(s)

\* queueItem.repositoryURL?.indexOf('http') === 0
StartsWithHttp(v) == ~IsNullish(v) /\ Len(v) >= 1 /\ v[1] \in {"https://", "http://"}

\* processPubspecQueue up to its first await
DartStart(s) ==
    IF ~StartsWithHttp(s.item.repositoryURL)
    THEN [s EXCEPT !.pc = "pubFetch"]
    ELSE IF s.item.repositoryURL = <<"flutter">>
    THEN DartAfterPubspec([s EXCEPT !.item.repositoryURL =
                               <<"https://", "github.com", "/", "flutter", "/", "flutter", "/">>])
    ELSE DartAfterPubspec(s)

\* processPubspecQueue once fetch(...).then(json).then(...) has settled
AfterPubFetch(s) ==
    CASE s.env.pub \in {"reject", "nonjson"} -> Crash(s)
      [] s.env.pub = "error" -> DartAfterPubspec(s)
      [] OTHER ->
            DartAfterPubspec(
                [s EXCEPT !.item.repositoryURL =
                              Coalesce(s.env.pubRepository,
                                  Coalesce(s.env.pubHomepage,
                                      Coalesce(s.item.repositoryURL, Null))),
                          !.item.name = s.env.pubName,
                          !.item.description = s.env.pubDescription])

\* a page without a license also marks the record's URL as not validated
AfterPubPageInvalidates(s) ==
    CASE s.env.page = "reject" -> Finish([s EXCEPT !.item.licenseUrlIsValid = "false"])
      [] s.env.page = "textfail" -> Crash(s)
      [] OTHER ->
            LET hits == {k \in 1..Len(LicensesToCheck) : LicensesToCheck[k] \in s.env.pageWords}
            IN IF hits = {} THEN Finish([s EXCEPT !.item.licenseUrlIsValid = "false"])
               ELSE Finish([s EXCEPT !.item.license =
                                <<LicensesToCheck[CHOOSE k \in hits : \A j \in hits : k <= j]>>])

\* processPubspecQueue once the landing page has been fetched and read
AfterPubPage(s) ==
    CASE s.env.page = "reject" -> Finish(s)
      [] s.env.page = "textfail" -> Crash(s)
      [] OTHER ->
            LET hits == {k \in 1..Len(LicensesToCheck) : LicensesToCheck[k] \in s.env.pageWords}
            IN IF hits = {} THEN Finish(s)
               ELSE Finish([s EXCEPT !.item.license =
                                <<LicensesToCheck[CHOOSE k \in hits : \A j \in hits : k <= j]>>])

\* the worker function, called by the queue, up to its first await
StartWorker(s) ==
    IF s.env.path = "dart" THEN DartStart(s) ELSE [s EXCEPT !.pc = "pathExists"]

\* ------------------------------------------------------------------------
\* Bounds of the model

\* the largest number of dependencies of a run whose packages all fail early
MaxDeps == 5

\* the number of redirects and retries of one pingLicenseURL chain the model follows
MaxHops == 5

\* ------------------------------------------------------------------------
\* The projects the model runs on: world is chosen once and never changes

\* dependency names, in lexicographic order
NameList == << "a", "b", "c", "d", "e", "f", "g", "h" >>

Names == { NameList[k] : k \in 1..Len(NameList) }

NameRank(name) == CHOOSE k \in 1..Len(NameList) : NameList[k] = name

GithubRepo == << "git+", "https://", "github.com", "/", "acme", "/", "widget", ".git" >>
BitbucketRepo == << "git@", "bitbucket.org", ":", "acme", "/", "widget", ".git" >>
MonoRepo == << "https://", "github.com", "/", "acme", "/", "mono", ".git" >>
MonoDirectory == << "packages", "/", "widget" >>
ShorthandRepo == << "github", ":", "acme", "/", "widget" >>
CanonicalRepo == << "https://", "github.com", "/", "acme", "/", "widget" >>
Homepage == << "https://", "acme.example" >>

FreeTextLicense == << "See LICENSE file", ":", " ", "http", ":", "/", "/", "acme.example" >>
AnnotatedLicense == << "MIT", ":", " see ", "/", "LICENSE" >>

\* what the outside world holds for one package
Pkg(path, manifest, license, repoKind, repoUrl, repoDir, registry, localFiles, api, server, git, pub, pubName, pubRepository, pubHomepage, page, pageWords) ==
    [path |-> path, manifest |-> manifest, license |-> license,
     description |-> <<"a widget">>, repoKind |-> repoKind, repoUrl |-> repoUrl,
     repoDir |-> repoDir, registry |-> registry, registryUrl |-> GithubRepo,
     localFiles |-> localFiles, api |-> api, server |-> server, git |-> git, pub |-> pub,
     pubName |-> pubName, pubRepository |-> pubRepository, pubHomepage |-> pubHomepage,
     pubDescription |-> <<"a widget">>, page |-> page, pageWords |-> pageWords]

NpmPkg(manifest, license, repo, registry, localFiles, api, server) ==
    Pkg("npm", manifest, license, repo[1], repo[2], repo[3], registry, localFiles, api, server,
        Undefined, "error", "a", Undefined, Undefined, "reject", {})

DartPkg(git, pub, pubName, pubRepository, pubHomepage, api, server, page, pageWords) ==
    Pkg("dart", "absent", Undefined, "none", Undefined, Undefined, "fail", {}, api, server,
        git, pub, pubName, pubRepository, pubHomepage, page, pageWords)

\* the repository field of a manifest: <<kind, url, directory>>
NoRepoField == << "none", Undefined, Undefined >>

RepoFields ==
    { NoRepoField,
      << "string", GithubRepo, Undefined >>,
      << "object", BitbucketRepo, Undefined >>,
      << "object", MonoRepo, MonoDirectory >>,
      << "string", ShorthandRepo, Undefined >> }

\* the repository fields that leave no URL with a protocol: the registry is asked
AsksRegistry(repo) == repo[1] = "none" \/ repo[2] = ShorthandRepo

LicenseFields == { Undefined, <<"MIT">>, FreeTextLicense, AnnotatedLicense, NonString }

LocalFileSets == { {}, {"LICENSE"}, {"README.md", "license.md"} }

\* every manifest repository field with the registry answers that matter for it
RepoCases ==
    { <<r, g>> \in RepoFields \X {"fail", "norepo", "repo"} : AsksRegistry(r) \/ g = "fail" }

NpmPkgs ==
    { NpmPkg("absent", Undefined, NoRepoField, "fail", {}, "nodata", "none"),
      NpmPkg("unreadable", Undefined, NoRepoField, "fail", {}, "nodata", "none") }
    \cup
    { NpmPkg("ok", l, c[1], c[2], {}, "nodata", "none") :
        l \in LicenseFields, c \in RepoCases }
    \cup
    { NpmPkg("ok", l, c[1], c[2], f, a, v) :
        l \in {Undefined, <<"MIT">>}, c \in RepoCases, f \in LocalFileSets,
        a \in ApiKinds, v \in ServerKinds }

DartServerKinds == { "none", "main", "limited", "moved", "loop", "down" }

PageCases ==
    { <<"reject", {}>>, <<"textfail", {}>>, <<"ok", {}>>,
      <<"ok", {"Apache-2.0", "BSD-3-Clause"}>> }

DartPkgs ==
    { DartPkg(GithubRepo, "error", "a", Undefined, Undefined, a, v, w[1], w[2]) :
        a \in ApiKinds, v \in DartServerKinds, w \in PageCases }
    \cup
    { DartPkg(Undefined, p, "a", Undefined, Undefined, "nodata", "none", w[1], w[2]) :
        p \in {"reject", "nonjson", "error"}, w \in PageCases }
    \cup
    { DartPkg(Undefined, "ok", n, r, h, a, v, w[1], w[2]) :
        n \in {"a", "b"}, r \in {Undefined, CanonicalRepo}, h \in {Undefined, Homepage},
        a \in ApiKinds, v \in DartServerKinds, w \in PageCases }

\* packages that end early: the ones a run with many dependencies is made of
AbsentPkg == NpmPkg("absent", Undefined, NoRepoField, "fail", {}, "nodata", "none")
UnreadablePkg == NpmPkg("unreadable", Undefined, NoRepoField, "fail", {}, "nodata", "none")
NoRepoPkg == NpmPkg("ok", <<"MIT">>, NoRepoField, "fail", {}, "nodata", "none")

\* packages whose license file has moved two or three times, to a host that limits
\* the rate of requests
HopPkgs ==
    { NpmPkg("ok", <<"MIT">>, << "string", GithubRepo, Undefined >>, "fail", {}, "nodata", v) :
        v \in {"moved2_limited", "moved3_limited"} }

\* packages whose resolution asks the hosting API
ApiPkgs ==
    { NpmPkg("ok", <<"MIT">>, << "string", GithubRepo, Undefined >>, "fail", {}, a, "none") :
        a \in {"message", "notfound", "license", "unlisted"} }
    \cup
    { NpmPkg("ok", <<"MIT">>, << "string", GithubRepo, Undefined >>, "fail", {}, "nodata", "main") }

\* a project: its type, the rate-limit answer, the enumerated names, the ignore
\* file, and the package behind each name
World(projectType, apiAvailable, rawDeps, ignored, pkg) ==
    [projectType |-> projectType, apiAvailable |-> apiAvailable, rawDeps |-> rawDeps,
     rawGit |-> [k \in 1..Len(rawDeps) |-> pkg[rawDeps[k]].git],
     ignored |-> ignored, pkg |-> pkg]

\* a pubspec.yaml whose sections name a package more than once: rawDeps are the keys of
\* builders, dependencies and dev_dependencies in file order, rawGit the git value of each
DartWorld(apiAvailable, rawDeps, rawGit, pkg) ==
    [projectType |-> "dart", apiAvailable |-> apiAvailable, rawDeps |-> rawDeps,
     rawGit |-> rawGit, ignored |-> {}, pkg |-> pkg]

\* a Dart package pub.dev does not know, hosted nowhere
PlainDartPkg ==
    DartPkg(Undefined, "error", "a", Undefined, Undefined, "nodata", "none", "reject", {})

\* a Dart package that pub.dev lists under the name "b", with a license at the hosting API
RenamedDartPkg ==
    DartPkg(Undefined, "ok", "b", CanonicalRepo, Undefined, "license", "none", "reject", {})

\* the git values of a package named in dependencies, then another package, then the
\* first one again in dev_dependencies
RepeatedValues ==
    { << GithubRepo, Undefined, Undefined >>,
      << Undefined, Undefined, GithubRepo >>,
      << GithubRepo, Undefined, MonoRepo >>,
      << GithubRepo, Undefined, GithubRepo >> }

FirstNames(n) == [k \in 1..n |-> NameList[k]]

Worlds ==
    \* no supported manifest file, or no dependency
    { World(t, TRUE, <<>>, {}, [n \in Names |-> AbsentPkg]) :
        t \in {"none", "npm", "yarnBerry", "dart"} }
    \cup
    \* every dependency is ignored, or a name is enumerated twice
    { World(t, TRUE, r, i, [n \in Names |-> AbsentPkg]) :
        t \in {"npm", "yarnBerry"}, r \in { <<"a">>, <<"b", "a", "b">> }, i \in { {}, {"a"}, {"a", "b"} } }
    \cup
    \* one package, in every shape
    { World(t, u, <<"a">>, {}, [n \in Names |-> p]) :
        t \in {"npm"}, u \in BOOLEAN, p \in NpmPkgs }
    \cup
    { World("dart", u, <<"a">>, {}, [n \in Names |-> p]) : u \in BOOLEAN, p \in DartPkgs }
    \cup
    \* a Dart package named in two sections of pubspec.yaml
    { DartWorld(TRUE, <<"a", "b", "a">>, g, [n \in Names |-> PlainDartPkg]) :
        g \in RepeatedValues }
    \cup
    { World("npm", FALSE, <<"a">>, {}, [n \in Names |-> p]) : p \in HopPkgs }
    \cup
    \* two Dart packages that pub.dev lists under one name
    { DartWorld(TRUE, <<"a", "b">>, << Undefined, Undefined >>, [n \in Names |-> RenamedDartPkg]) }
    \cup
    \* two packages that both ask the hosting API
    { World("npm", TRUE, <<"b", "a">>, {}, [n \in Names |-> IF n = "a" THEN p ELSE q]) :
        p \in ApiPkgs, q \in ApiPkgs }
    \cup
    \* up to MaxDeps packages that end early
    UNION { { World("npm", TRUE, FirstNames(n), {},
                    [m \in Names |-> IF NameRank(m) <= k THEN UnreadablePkg
                                     ELSE IF NameRank(m) = k + 1 THEN NoRepoPkg
                                     ELSE AbsentPkg]) : k \in 0..n } : n \in 1..MaxDeps }

\* ------------------------------------------------------------------------
\* State

VARIABLES
    world,          \* the project and the outside world of this run
    phase,          \* where run() is
    console,        \* the status lines printed so far
    useGithubAPI,   \* the process-wide flag (undefined, hence falsy, until run() sets it)
    postCommandLog, \* the API messages kept for the end of the run
    packageHash,    \* the names seen by the enumerator
    deps,           \* the enumerated name of each QueueItem created
    items,          \* the QueueItem objects
    tasks,          \* async.queue: the items waiting for a worker
    running,        \* async.queue: the items whose worker has not called cb()
    processPending, \* async.queue: process() is scheduled with setImmediate
    pc,             \* the await each resolver invocation is suspended at
    ctx,            \* the local variables of each invocation's URL validation
    result,         \* the shared results array (of item indices)
    requests,       \* per item: HEAD requests sent so far
    apiCalls,       \* per item: hosting-API requests sent so far
    registryCalls,  \* per item: registry requests sent so far
    drains,         \* how many times the drain callback has run
    report,         \* the report file: absent, or the entries written last
    summary,        \* the counts of the console summary
    unit            \* a function of Utils called on its own: its argument and results

vars ==
    << world, phase, console, useGithubAPI, postCommandLog, packageHash, deps, items, tasks,
       running, processPending, pc, ctx, result, requests, apiCalls, registryCalls, drains,
       report, summary, unit >>

Ids == 1..Len(deps)

NoReport == << [name |-> "<no file>", license |-> Null, lines |-> <<>>] >>

NoSummary == [total |-> -1, successful |-> -1, unsuccessful |-> -1]

\* a result not computed yet
Pending == <<"<pending>">>

\* no function is called on its own
NoUnit == [arg |-> Null, once |-> Pending, twice |-> Pending]

\* the module's variables when index.ts has been loaded and run() starts
Loaded ==
    /\ phase = "findProjectType"
    /\ console = {}
    /\ useGithubAPI = FALSE
    /\ postCommandLog = <<>>
    /\ packageHash = {}
    /\ deps = <<>>
    /\ items = <<>>
    /\ tasks = <<>>
    /\ running = {}
    /\ processPending = FALSE
    /\ pc = <<>>
    /\ ctx = <<>>
    /\ result = <<>>
    /\ requests = <<>>
    /\ apiCalls = <<>>
    /\ registryCalls = <<>>
    /\ drains = 0
    /\ report = NoReport
    /\ summary = NoSummary

Init ==
    /\ world \in Worlds
    /\ unit = NoUnit
    /\ Loaded

\* ------------------------------------------------------------------------
\* run(): project type, rate limit, enumeration

\* findProjectType() and the early return of run()
RunFindProjectType ==
    /\ phase = "findProjectType"
    /\ IF world.projectType = "none"
       THEN /\ phase' = "exited"
            /\ console' = console \cup {"No supported dependencies file found. Exiting."}
       ELSE /\ phase' = "rateLimit"
            /\ console' = console \cup {"Found a project."}
    /\ UNCHANGED << world, useGithubAPI, postCommandLog, packageHash, deps, items, tasks,
                    running, processPending, pc, ctx, result, requests, apiCalls,
                    registryCalls, drains, report, summary, unit >>

\* octokit.rateLimit.get(): the flag is set, then the queue and its drain callback are made
RunRateLimit ==
    /\ phase = "rateLimit"
    /\ useGithubAPI' = world.apiAvailable
    /\ phase' = "createDependencyList"
    /\ UNCHANGED << world, console, postCommandLog, packageHash, deps, items, tasks, running,
                    processPending, pc, ctx, result, requests, apiCalls, registryCalls,
                    drains, report, summary, unit >>

\* the names of raw[1..n] in order, each once: a name is kept when it is not in the hash
RECURSIVE FirstOccurrences(_, _)
FirstOccurrences(raw, hash) ==
    IF raw = <<>> THEN <<>>
    ELSE IF Head(raw) \in hash THEN FirstOccurrences(Tail(raw), hash)
    ELSE <<Head(raw)>> \o FirstOccurrences(Tail(raw), hash \cup {Head(raw)})

\* the ignored names are the ones kept
FilterIgnoredInverted(names, ignored) == SelectSeq(names, LAMBDA n : n \in ignored)

\* the ignore file is not applied
FilterIgnoredOff(names, ignored) == names

\* deps.filter(qi => !ignorePatterns.ignores(qi.name))
RECURSIVE FilterIgnored(_, _)
FilterIgnored(names, ignored) ==
    IF names = <<>> THEN <<>>
    ELSE IF Head(names) \in ignored THEN FilterIgnored(Tail(names), ignored)
    ELSE <<Head(names)>> \o FilterIgnored(Tail(names), ignored)

\* getDartDeps: dependencies[key] = value, section after section: a key named again
\* keeps its place and takes the later value
MergedValue(raw, vals, name) ==
    vals[CHOOSE k \in 1..Len(raw) : raw[k] = name /\ \A j \in (k + 1)..Len(raw) : raw[j] # name]

\* the QueueItem an enumerator creates for a name (value: the entry of a Dart dependency)
NewQueueItem(projectType, name, value) ==
    [name |-> name,
     parent |-> IF projectType = "dart" THEN EmptyString ELSE <<"node_modules", "/", name>>,
     repositoryURL |-> IF projectType = "dart"
                       THEN (IF Truthy(value) THEN prettyGitURL(value) ELSE <<name>>)
                       ELSE Null,
     license |-> Undefined,
     description |-> Undefined,
     licenseUrl |-> Null,
     licenseUrlIsValid |-> "null",
     missingLicenseReason |-> "none"]

\* every enumerated occurrence becomes a QueueItem
CreateDependencyListAll(raw, hash) == raw

\* getNPMdeps / getDartDeps / getYarnBerryDeps: one QueueItem per name not seen before
CreateDependencyList(raw, hash) == FirstOccurrences(raw, hash)

\* createDependencyList, the ignore filter, and processingQueue.push(deps)
RunCreateDependencyList ==
    /\ phase = "createDependencyList"
    /\ LET created == CreateDependencyList(world.rawDeps, packageHash)
           names == FilterIgnored(created, world.ignored)
       IN /\ packageHash' = packageHash \cup { created[k] : k \in 1..Len(created) }
          /\ deps' = names
          /\ items' = [k \in 1..Len(names) |->
                          NewQueueItem(world.projectType, names[k],
                                       MergedValue(world.rawDeps, world.rawGit, names[k]))]
          /\ pc' = [k \in 1..Len(names) |-> "queued"]
          /\ ctx' = [k \in 1..Len(names) |-> NoCtx]
          /\ requests' = [k \in 1..Len(names) |-> 0]
          /\ apiCalls' = [k \in 1..Len(names) |-> 0]
          /\ registryCalls' = [k \in 1..Len(names) |-> 0]
          /\ IF Len(names) > 0
             THEN /\ tasks' = [k \in 1..Len(names) |-> k]
                  /\ processPending' = TRUE
                  /\ phase' = "processing"
                  /\ console' = console \cup {"Processing packages."}
             ELSE /\ tasks' = <<>>
                  /\ processPending' = FALSE
                  /\ phase' = "exited"
                  /\ console' = console \cup {"No dependencies found. Exiting."}
    /\ UNCHANGED << world, useGithubAPI, postCommandLog, running, result, drains, report,
                    summary, unit >>

\* ------------------------------------------------------------------------
\* async.queue(projectType.processor, 4) and its drain callback

View(i) ==
    [env |-> world.pkg[deps[i]], item |-> items[i], ctx |-> ctx[i], pc |-> pc[i],
     useGithubAPI |-> useGithubAPI, postCommandLog |-> postCommandLog,
     requests |-> requests[i], apiCalls |-> apiCalls[i], registryCalls |-> registryCalls[i]]

\* every waiting task is handed to a worker at once
NumToStartAll(run, waiting) == Len(waiting)

\* how many waiting tasks process() hands to workers
NumToStart(run, waiting) ==
    LET free == Concurrency - Cardinality(run)
    IN IF free <= 0 THEN 0 ELSE IF free < Len(waiting) THEN free ELSE Len(waiting)

\* the record is not appended
PushResultLost(res, i) == res

\* result.push(queueItem)
PushResult(res, i) == Append(res, i)

\* (a, b) => a.name < b.name ? -1 : 1
Compare(a, b) == IF NameRank(a.name) < NameRank(b.name) THEN -1 ELSE 1

RemoveAt(seq, k) == SubSeq(seq, 1, k - 1) \o SubSeq(seq, k + 1, Len(seq))

\* result.sort(compare): the orders of res that are ascending by name; items of equal
\* name compare as "greater" both ways, and their order is left to the engine
RECURSIVE SortedOrders(_, _)
SortedOrders(res, its) ==
    IF res = <<>> THEN { <<>> }
    ELSE LET least == { k \in 1..Len(res) :
                          \A j \in 1..Len(res) : Compare(its[res[j]], its[res[k]]) = 1 \/ j = k }
         IN UNION { { <<res[k]>> \o rest : rest \in SortedOrders(RemoveAt(res, k), its) } :
                    k \in least }

isAValidUrl(v) == ~IsNullish(v) /\ ~ProtocolIsNull(v)

wrapInMarkdownUrl(url) ==
    IF isAValidUrl(url) THEN <<"[">> \o url \o <<"](">> \o url \o <<")">> ELSE url

\* [description, repo, license url].filter(l => l !== null && l !== undefined && l !== '')
RECURSIVE NonEmptyLines(_)
NonEmptyLines(lines) ==
    IF lines = <<>> THEN <<>>
    ELSE IF Truthy(Head(lines)) THEN <<Head(lines)>> \o NonEmptyLines(Tail(lines))
    ELSE NonEmptyLines(Tail(lines))

\* one entry of the report
RenderItem(q) ==
    [name |-> q.name,
     license |-> Coalesce(q.license, <<"no license found">>),
     lines |-> NonEmptyLines(<< q.description, wrapInMarkdownUrl(q.repositoryURL),
                                wrapInMarkdownUrl(q.licenseUrl) >>)]

\* a record counts as successful when its license URL was validated
SummarizeByValidatedFlag(res, its) ==
    LET successful == { k \in 1..Len(res) : its[res[k]].licenseUrlIsValid = "true" }
        unsuccessful == { k \in 1..Len(res) : its[res[k]].licenseUrlIsValid # "true" }
    IN [total |-> Cardinality(successful) + Cardinality(unsuccessful),
        successful |-> Cardinality(successful),
        unsuccessful |-> Cardinality(unsuccessful)]

\* the counts printed by the drain callback
Summarize(res, its) ==
    LET successful == { k \in 1..Len(res) : Truthy(its[res[k]].license) }
        unsuccessful == { k \in 1..Len(res) : ~Truthy(its[res[k]].license) }
    IN [total |-> Cardinality(successful) + Cardinality(unsuccessful),
        successful |-> Cardinality(successful),
        unsuccessful |-> Cardinality(unsuccessful)]

\* the queue is idle: no task waits and no worker runs
Idle(run, waiting) == waiting = <<>> /\ run = {}

\* the records are one shared object: a finishing invocation writes its licenseUrl to all
CommitSharingFields(i, t) ==
    LET finished == t.pc = "finish"
        run1 == IF finished THEN running \ {i} ELSE running
        res1 == IF finished THEN PushResult(result, i) ELSE result
        n == IF finished THEN NumToStart(run1, tasks) ELSE 0
        started == { tasks[k] : k \in 1..n }
        V(j) == IF j = i THEN [t EXCEPT !.pc = IF finished THEN "done" ELSE @]
                ELSE IF j \in started
                THEN StartWorker([View(j) EXCEPT !.useGithubAPI = t.useGithubAPI])
                ELSE View(j)
        its == [j \in Ids |-> IF finished /\ j # i
                               THEN [V(j).item EXCEPT !.licenseUrl = t.item.licenseUrl]
                               ELSE V(j).item]
    IN /\ items' = its
       /\ pc' = [j \in Ids |-> V(j).pc]
       /\ ctx' = [j \in Ids |-> V(j).ctx]
       /\ requests' = [j \in Ids |-> V(j).requests]
       /\ apiCalls' = [j \in Ids |-> V(j).apiCalls]
       /\ registryCalls' = [j \in Ids |-> V(j).registryCalls]
       /\ useGithubAPI' = t.useGithubAPI
       /\ postCommandLog' = t.postCommandLog
       /\ tasks' = SubSeq(tasks, n + 1, Len(tasks))
       /\ running' = run1 \cup started
       /\ IF finished /\ Idle(run1, tasks)
          THEN /\ drains' = drains + 1
               /\ phase' = "drained"
               /\ \E sorted \in SortedOrders(res1, its) :
                    /\ result' = sorted
                    /\ report' = [k \in 1..Len(sorted) |-> RenderItem(its[sorted[k]])]
               /\ summary' = Summarize(res1, its)
          ELSE /\ result' = res1
               /\ UNCHANGED << drains, phase, report, summary >>
       /\ UNCHANGED << world, console, packageHash, deps, processPending, unit >>

\* An invocation of item i has run from one await to the next, ending in view t.
\* When it has finished: result.push, cb(), and in cb the queue calls the drain
\* callback if it is idle and then hands waiting tasks to the free workers, each
\* of which runs to its first await.
Commit(i, t) ==
    LET finished == t.pc = "finish"
        run1 == IF finished THEN running \ {i} ELSE running
        res1 == IF finished THEN PushResult(result, i) ELSE result
        n == IF finished THEN NumToStart(run1, tasks) ELSE 0
        started == { tasks[k] : k \in 1..n }
        V(j) == IF j = i THEN [t EXCEPT !.pc = IF finished THEN "done" ELSE @]
                ELSE IF j \in started
                THEN StartWorker([View(j) EXCEPT !.useGithubAPI = t.useGithubAPI])
                ELSE View(j)
        its == [j \in Ids |-> V(j).item]
    IN /\ items' = its
       /\ pc' = [j \in Ids |-> V(j).pc]
       /\ ctx' = [j \in Ids |-> V(j).ctx]
       /\ requests' = [j \in Ids |-> V(j).requests]
       /\ apiCalls' = [j \in Ids |-> V(j).apiCalls]
       /\ registryCalls' = [j \in Ids |-> V(j).registryCalls]
       /\ useGithubAPI' = t.useGithubAPI
       /\ postCommandLog' = t.postCommandLog
       /\ tasks' = SubSeq(tasks, n + 1, Len(tasks))
       /\ running' = run1 \cup started
       /\ IF finished /\ Idle(run1, tasks)
          THEN /\ drains' = drains + 1
               /\ phase' = "drained"
               /\ \E sorted \in SortedOrders(res1, its) :
                    /\ result' = sorted
                    /\ report' = [k \in 1..Len(sorted) |-> RenderItem(its[sorted[k]])]
               /\ summary' = Summarize(res1, its)
          ELSE /\ result' = res1
               /\ UNCHANGED << drains, phase, report, summary >>
       /\ UNCHANGED << world, console, packageHash, deps, processPending, unit >>

\* the setImmediate callback of push(): process() hands the first tasks to the workers
Process ==
    /\ processPending
    /\ LET n == NumToStart(running, tasks)
           started == { tasks[k] : k \in 1..n }
           V(j) == IF j \in started THEN StartWorker(View(j)) ELSE View(j)
       IN /\ items' = [j \in Ids |-> V(j).item]
          /\ pc' = [j \in Ids |-> V(j).pc]
          /\ ctx' = [j \in Ids |-> V(j).ctx]
          /\ requests' = [j \in Ids |-> V(j).requests]
          /\ apiCalls' = [j \in Ids |-> V(j).apiCalls]
          /\ registryCalls' = [j \in Ids |-> V(j).registryCalls]
          /\ tasks' = SubSeq(tasks, n + 1, Len(tasks))
          /\ running' = running \cup started
    /\ processPending' = FALSE
    /\ UNCHANGED << world, phase, console, useGithubAPI, postCommandLog, packageHash, deps,
                    result, drains, report, summary, unit >>

\* ------------------------------------------------------------------------
\* The awaits of a resolver invocation: each action is the code that runs when the
\* awaited call of item i settles

Suspended(i, at) == i \in running /\ pc[i] = at

\* await fs.pathExists(packageJsonPath)
PathExists(i) == Suspended(i, "pathExists") /\ Commit(i, AfterPathExists(View(i)))

\* await fs.readJSON(packageJsonPath)
ReadJSON(i) == Suspended(i, "readJSON") /\ Commit(i, AfterReadJSON(View(i)))

\* await packageJson(queueItem.name, ...).catch(e => null)
Registry(i) == Suspended(i, "registry") /\ Commit(i, AfterRegistry(View(i)))

\* await octokit.rest.licenses.getForRepo(...).catch(e => e)
Api(i) == Suspended(i, "api") /\ Commit(i, AfterApi(View(i)))

\* await ping(urlToCheck)
Ping(i) ==
    /\ Suspended(i, "ping")
    /\ LET r == ping(ServerAnswer(world.pkg[deps[i]].server, ctx[i].url, requests[i]))
       IN /\ IsString(r.result) => ctx[i].tryCount < MaxHops
          /\ Commit(i, AfterPing(View(i), r))

\* await wait(2000)
Backoff(i) == Suspended(i, "backoff") /\ Commit(i, AfterBackoff(View(i)))

\* await wait(200)
Wait200(i) == Suspended(i, "wait200") /\ Commit(i, AfterWait200(View(i)))

\* await fetch(`https://pub.dev/api/packages/${name}`).then(...).then(...)
PubFetch(i) == Suspended(i, "pubFetch") /\ Commit(i, AfterPubFetch(View(i)))

\* await fetch(`https://pub.dev/packages/${name}`).catch(e => null); await html.text()
PubPage(i) == Suspended(i, "pubPage") /\ Commit(i, AfterPubPage(View(i)))

Next ==
    \/ RunFindProjectType
    \/ RunRateLimit
    \/ RunCreateDependencyList
    \/ Process
    \/ \E i \in Ids : PathExists(i)
    \/ \E i \in Ids : ReadJSON(i)
    \/ \E i \in Ids : Registry(i)
    \/ \E i \in Ids : Api(i)
    \/ \E i \in Ids : Ping(i)
    \/ \E i \in Ids : Backoff(i)
    \/ \E i \in Ids : Wait200(i)
    \/ \E i \in Ids : PubFetch(i)
    \/ \E i \in Ids : PubPage(i)

Spec == Init /\ [][Next]_vars

\* ------------------------------------------------------------------------
\* prettyGitURL called on its own, on the repository references of manifests

RepoPrefixes == { << "git+", "https://" >>, << "git@" >>, << "git://" >>, << "https://" >> }

RepoHosts == { "github.com", "gitlab.com", "bitbucket.org", "example.org" }

\* acme/widget and acme/acme.github.io
RepoPaths ==
    { << "acme", "/", "widget" >>, << "acme", "/", "acme", ".git", "hub.io" >> }

RepoShorthands == { "github", "gitlab", "bitbucket" }

RepoReferences ==
    { p \o << h, sep >> \o path \o suffix :
        p \in RepoPrefixes, h \in RepoHosts, sep \in { "/", ":" }, path \in RepoPaths,
        suffix \in { << >>, << ".git" >> } }
    \cup
    { << h, ":" >> \o path : h \in RepoShorthands, path \in RepoPaths }
    \cup
    { Null, EmptyString, << "flutter" >>, << "see README" >> }

\* no project: only the function is called
NoProject == World("none", FALSE, << >>, {}, [n \in Names |-> AbsentPkg])

NormalizerInit ==
    /\ world = NoProject
    /\ unit \in { [arg |-> u, once |-> Pending, twice |-> Pending] : u \in RepoReferences }
    /\ Loaded

\* prettyGitURL(arg)
Normalize ==
    /\ unit.once = Pending
    /\ unit' = [unit EXCEPT !.once = prettyGitURL(unit.arg)]
    /\ UNCHANGED << world, phase, console, useGithubAPI, postCommandLog, packageHash, deps,
                    items, tasks, running, processPending, pc, ctx, result, requests,
                    apiCalls, registryCalls, drains, report, summary >>

\* prettyGitURL(prettyGitURL(arg))
NormalizeAgain ==
    /\ unit.once # Pending
    /\ unit.twice = Pending
    /\ unit' = [unit EXCEPT !.twice = prettyGitURL(unit.once)]
    /\ UNCHANGED << world, phase, console, useGithubAPI, postCommandLog, packageHash, deps,
                    items, tasks, running, processPending, pc, ctx, result, requests,
                    apiCalls, registryCalls, drains, report, summary >>

NormalizerNext == Normalize \/ NormalizeAgain

NormalizerSpec == NormalizerInit /\ [][NormalizerNext]_vars

\* ------------------------------------------------------------------------
\* validateLicenseURL called on its own, on a record in any state of its resolution

\* the flag, the license URL and the missing reason a processor leaves together
VerdictCases ==
    { << "null", Null, "none" >>,
      << "null", LocalLicensePath(<< "node_modules", "/", "a" >>, "LICENSE"), "none" >>,
      << "true", DownloadURL, "none" >>,
      << "false", Null, "no-local" >>,
      << "false", Null, "no-web" >>,
      << "false", CanonicalRepo \o << "/", "blob", "/", "main", "/", "LICENSE" >>, "no-web" >> }

ValidatedRepos ==
    { CanonicalRepo, prettyGitURL(BitbucketRepo),
      prettyGitURL(MonoRepo) \o << "/", "blob", "/", "main", "/" >> \o MonoDirectory }

ValidatedItems ==
    { [name |-> "a", parent |-> << "node_modules", "/", "a" >>, repositoryURL |-> r,
       license |-> l, description |-> << "a widget" >>, licenseUrl |-> v[2],
       licenseUrlIsValid |-> v[1], missingLicenseReason |-> v[3]] :
        r \in ValidatedRepos, l \in { Undefined, << "MIT" >> }, v \in VerdictCases }

ValidateWorlds ==
    { World("npm", FALSE, << "a" >>, {},
            [n \in Names |->
                NpmPkg("ok", << "MIT" >>, << "string", GithubRepo, Undefined >>, "fail", {},
                       "nodata", v)]) : v \in ServerKinds }

ValidateInit ==
    /\ world \in ValidateWorlds
    /\ unit = NoUnit
    /\ phase = "processing"
    /\ console = {}
    /\ useGithubAPI = FALSE
    /\ postCommandLog = << >>
    /\ packageHash = { "a" }
    /\ deps = << "a" >>
    /\ items \in { << q >> : q \in ValidatedItems }
    /\ tasks = << >>
    /\ running = { 1 }
    /\ processPending = FALSE
    /\ pc = << "caller" >>
    /\ ctx = << NoCtx >>
    /\ result = << >>
    /\ requests = << 0 >>
    /\ apiCalls = << 0 >>
    /\ registryCalls = << 0 >>
    /\ drains = 0
    /\ report = NoReport
    /\ summary = NoSummary

\* validateLicenseURL(queueItem, license) for one of the license file names
CallValidate(i) ==
    /\ Suspended(i, "caller")
    /\ \E f \in 1..Len(LicenseFileNames) : Commit(i, StartValidate(View(i), "call", f))

ValidateNext ==
    \/ \E i \in Ids : CallValidate(i)
    \/ \E i \in Ids : Ping(i)
    \/ \E i \in Ids : Backoff(i)
    \/ \E i \in Ids : Wait200(i)

ValidateSpec == ValidateInit /\ [][ValidateNext]_vars

\* ------------------------------------------------------------------------
\* validateLicenseName called on its own, on the license fields of manifests

\* pieces of license fields: identifiers of the allow-list, other words, and the
\* characters of InvalidLicenseCharacters
LicenseWords ==
    { "MIT", "Apache-2.0", "mit", "Proprietary", "See LICENSE file", " OR " }
    \cup InvalidLicenseCharacters

DeclaredLicenses ==
    { << w >> : w \in LicenseWords }
    \cup { << w1, w2 >> : w1 \in LicenseWords, w2 \in LicenseWords }
    \cup { Undefined, EmptyString, FreeTextLicense, AnnotatedLicense }

NameValidatorInit ==
    /\ world = NoProject
    /\ unit \in { [arg |-> u, once |-> Pending, twice |-> Pending] : u \in DeclaredLicenses }
    /\ Loaded

\* validateLicenseName(arg)
ValidateName ==
    /\ unit.once = Pending
    /\ unit' = [unit EXCEPT !.once = validateLicenseName(unit.arg)]
    /\ UNCHANGED << world, phase, console, useGithubAPI, postCommandLog, packageHash, deps,
                    items, tasks, running, processPending, pc, ctx, result, requests,
                    apiCalls, registryCalls, drains, report, summary >>

NameValidatorNext == ValidateName

NameValidatorSpec == NameValidatorInit /\ [][NameValidatorNext]_vars

\* ------------------------------------------------------------------------
\* Properties

Env(i) == world.pkg[deps[i]]

Drained == drains > 0

Occurrences(seq, x) == Cardinality({ k \in 1..Len(seq) : seq[k] = x })

\* C1: at every moment at most 4 resolver invocations are in flight (started and
\* not yet having called their completion callback), however many records are enqueued.
C1_AtMostFourInFlight == Cardinality(running) <= 4

\* four invocations are in flight while a fifth record waits
C1_Witness == Cardinality(running) = 4 /\ tasks # <<>>

\* C2: the drain callback never runs while a record is pending or in flight: once it
\* has run, no task waits, no worker runs, and every enqueued record is in the results
\* exactly once, so the results are as many as the enqueued records.
C2_DrainAfterAll ==
    Drained =>
        /\ tasks = <<>>
        /\ running = {}
        /\ Len(result) = Len(deps)
        /\ \A i \in Ids : Occurrences(result, i) = 1 /\ pc[i] = "done"

\* the drain callback has run for a run of several records
C2_Witness == Drained /\ Len(deps) >= 2

\* C3: no exception leaves a resolver invocation: whatever its external calls answer,
\* the invocation appends its record to the results and calls cb().
C3_NoExceptionEscapes == \A i \in Ids : pc[i] # "crashed"

\* every invocation in flight has thrown: no callback of the run is due any more
Stuck == phase = "processing" /\ ~processPending /\ \A i \in running : pc[i] = "crashed"

\* C4: one dependency's failure never aborts the run: as long as external calls are
\* answered, the run is never left with nothing to do before every other record is in
\* the results and the drain callback has run.
C4_RunCompletes == ~Stuck

\* C5: when the drain callback has run, every record has exactly one of
\* {license resolved, missing-license reason set}.
C5_ExactlyOneOfLicenseAndReason ==
    Drained =>
        \A i \in Ids :
            Truthy(items[i].license) # (items[i].missingLicenseReason # "none")

\* C5 as amended: when the drain callback has run, a record's missing-license reason
\* is set exactly when its validated flag is false; the license is tracked apart.
C5_ReasonIffNotValid ==
    Drained =>
        \A i \in Ids :
            (items[i].missingLicenseReason # "none") <=> (items[i].licenseUrlIsValid = "false")

\* a finished run holds a record with a license and a missing reason, and its flag is false
C5_Witness ==
    /\ Drained
    /\ \E i \in Ids :
        /\ Truthy(items[i].license)
        /\ items[i].missingLicenseReason = "no-web"
        /\ items[i].licenseUrlIsValid = "false"

LocalLicenseFiles(i) ==
    { LicenseFileNames[f] : f \in 1..Len(LicenseFileNames) } \cap Env(i).localFiles

\* the hosting API gave item i a license and its URL
ApiResult(i) == apiCalls[i] > 0 /\ Env(i).api = "license"

\* https://github.com/acme/widget/blob/main/LICENSE
WidgetMainLicense == CanonicalRepo \o << "/", "blob", "/", "main", "/", "LICENSE" >>

\* C7: a record with the repository URL https://github.com/acme/widget, no local
\* license file and no hosting-API result, for which the probe of
\* https://github.com/acme/widget/blob/main/LICENSE answers 200, completes with that
\* URL as its licenseUrl and with no missing-license reason.
C7_ProbedUrlIsRecorded ==
    \A i \in Ids :
        ( /\ pc[i] = "done"
          /\ Env(i).path = "npm"
          /\ Env(i).server = "main"
          /\ LocalLicenseFiles(i) = {}
          /\ ~ApiResult(i)
          /\ items[i].repositoryURL = CanonicalRepo )
        => /\ items[i].licenseUrl = WidgetMainLicense
           /\ items[i].missingLicenseReason = "none"

\* C8: a record whose manifest has no repository field and whose registry lookup fails
\* ends with the reason 'missing-repo', and no hosting-API call and no probe is made for it.
C8_NoRepositoryNoWeb ==
    \A i \in Ids :
        ( /\ Env(i).path = "npm"
          /\ Env(i).manifest = "ok"
          /\ Env(i).repoKind = "none"
          /\ Env(i).registry = "fail" )
        => /\ apiCalls[i] = 0
           /\ requests[i] = 0
           /\ pc[i] = "done" =>
                /\ items[i].missingLicenseReason = "missing-repo"
                /\ items[i].licenseUrlIsValid = "false"

\* such a record has asked the registry and is done
C8_Witness ==
    \E i \in Ids :
        /\ Env(i).path = "npm"
        /\ Env(i).manifest = "ok"
        /\ Env(i).repoKind = "none"
        /\ Env(i).registry = "fail"
        /\ registryCalls[i] = 1
        /\ pc[i] = "done"

\* the project has no supported manifest file, or every enumerated name is ignored
NothingToDo ==
    \/ world.projectType = "none"
    \/ \A k \in 1..Len(world.rawDeps) : world.rawDeps[k] \in world.ignored

\* C9: without a supported manifest file, or with an empty dependency list, the run
\* prints its message and ends: no resolver starts, the drain callback never runs and no
\* report is written.
C9_NothingToDoNoReport ==
    NothingToDo =>
        /\ phase \notin {"processing", "drained"}
        /\ ~processPending
        /\ tasks = <<>>
        /\ running = {}
        /\ result = <<>>
        /\ drains = 0
        /\ report = NoReport
        /\ phase = "exited" =>
              IF world.projectType = "none"
              THEN "No supported dependencies file found. Exiting." \in console
              ELSE "No dependencies found. Exiting." \in console

\* a project whose dependencies are all ignored has ended
C9_Witness == phase = "exited" /\ world.projectType # "none" /\ world.rawDeps # <<>>

\* the URL item i is probing answers every request with 429
Always429(i) ==
    /\ pc[i] \in {"ping", "backoff", "wait200"}
    /\ Env(i).server = "limited"
    /\ isAValidUrl(ctx[i].url)

\* C10: to a target that answers every request with 429 the retry wrapper sends at
\* most 3 requests in total.
C10_AtMostThreeRequests == \A i \in Ids : Always429(i) => ctx[i].sent <= 3

\* C10 as amended: to such a target the retry wrapper sends at most 4 requests in
\* total, the first one and 3 retries with a backoff before each, and then reports
\* failure.
C10_AtMostFourRequests ==
    \A i \in Ids :
        Always429(i) =>
            /\ ctx[i].sent <= 4
            /\ pc[i] = "backoff" => ctx[i].sent <= 3
            /\ pc[i] = "wait200" => ctx[i].sent = 4 /\ items[i].licenseUrl # ctx[i].urlToCheck

\* the wrapper has given up on such a target after its fourth request
C10_Witness == \E i \in Ids : Always429(i) /\ pc[i] = "wait200" /\ ctx[i].sent = 4

\* the host of item i redirects the main-branch LICENSE to FinalURL, which answers 200
Moved(i) == Env(i).server = "moved"

\* C11: when a probed target answers 301 with a Location header, the retry wrapper next
\* probes exactly that Location URL, and when that answers 200 the wrapper reports
\* success and the URL is marked valid for the record (its validated flag is true).
C11_RedirectMarksValid ==
    \A i \in Ids :
        Moved(i) =>
            /\ (pc[i] = "ping" /\ ctx[i].tryCount > 0) => ctx[i].url = FinalURL
            /\ (pc[i] = "done" /\ ctx[i].url = FinalURL) =>
                    /\ items[i].licenseUrl # Null
                    /\ items[i].licenseUrlIsValid = "true"

\* C12: a record's validated flag starts unknown (null) and is assigned at most once:
\* once it is true or false, no later step of any resolver changes it.
C12_FlagSetAtMostOnce ==
    [][ /\ phase = "createDependencyList" =>
              \A i \in 1..Len(items') : items'[i].licenseUrlIsValid = "null"
        /\ \A i \in Ids :
              items[i].licenseUrlIsValid # "null" =>
                  items'[i].licenseUrlIsValid = items[i].licenseUrlIsValid ]_vars

\* a record whose flag is already true is still being resolved
C12_Witness == \E i \in Ids : items[i].licenseUrlIsValid = "true" /\ pc[i] = "pubPage"

\* run() has set the process-wide flag and made the queue
SchedulerStarted == phase \in {"createDependencyList", "processing", "drained"}

\* C14: once the scheduler has started, the process-wide 'use hosting API' flag only
\* ever changes from true to false, under every interleaving of the resolver
\* invocations, also when two of them both flip it.
C14_ApiFlagOneWay == [][ SchedulerStarted => (useGithubAPI' => useGithubAPI) ]_vars

\* the hosting API has answered item i with an error
ApiError(i) == apiCalls[i] = 1 /\ pc[i] # "api" /\ Env(i).api = "message"

\* two invocations asked the API while it was on, and both were answered with an error
C14_Witness ==
    /\ world.apiAvailable
    /\ ~useGithubAPI
    /\ \E i, j \in Ids : i # j /\ ApiError(i) /\ ApiError(j)

\* the hosting API has reported an error in this run
ApiHasFailed == Len(postCommandLog) > 0

\* C15: after the hosting API has reported an error once, no further hosting-API
\* request is started for any record; a record that reaches the API step afterwards
\* goes directly to URL probing.
C15_NoApiRequestAfterError ==
    [][ /\ ApiHasFailed' => apiCalls' = apiCalls
        /\ \A i \in Ids :
              ( /\ ApiHasFailed
                /\ pc[i] \in {"readJSON", "registry"}
                /\ pc'[i] \notin {pc[i], "registry", "crashed"}
                /\ Truthy(items'[i].repositoryURL) )
              => pc'[i] = "ping" /\ requests'[i] = requests[i] + 1 ]_vars

\* after the error a record of a GitHub repository is probed without an API request
C15_Witness ==
    /\ ApiHasFailed
    /\ \E i \in Ids :
        /\ apiCalls[i] = 0
        /\ pc[i] = "ping"
        /\ HasGithubRepoPath(items[i].repositoryURL)

\* the run has enumerated its dependencies and pushed them to the queue
Enumerated == phase \in {"processing", "drained"}

TaskSet == { tasks[k] : k \in 1..Len(tasks) }

FirstValue(raw, vals, name) ==
    vals[CHOOSE k \in 1..Len(raw) : raw[k] = name /\ \A j \in 1..(k - 1) : raw[j] # name]

\* C17: when a dependency name occurs several times during enumeration, the record
\* that is kept carries the data of the first occurrence, for every enumerator,
\* the Dart enumerator included.
C17_FirstOccurrenceWins ==
    Enumerated =>
        \A i \in Ids :
            pc[i] = "queued" =>
                items[i] = NewQueueItem(world.projectType, deps[i],
                                        FirstValue(world.rawDeps, world.rawGit, deps[i]))

\* ------------------------------------------------------------------------
\* Properties of prettyGitURL (under NormalizerSpec)

IsText(u) == u \notin { Null, Undefined, NonString, Pending }

EndsWithGit(u) == IsText(u) /\ Len(u) >= 1 /\ u[Len(u)] = ".git"

\* u is https://<host>/<owner>/<repo>
IsCanonical(u) ==
    /\ IsText(u)
    /\ Len(u) >= 5
    /\ u[1] = "https://"
    /\ u[3] = "/"
    /\ Occurrences(u, "/") = 2
    /\ u[Len(u)] # "/"
    /\ \A k \in 2..Len(u) : u[k] \notin { ":", "git+", "git@", "git://", "https://" }
    /\ ~EndsWithGit(u)

\* C18: for every already-canonical URL u = https://<host>/<owner>/<repo>,
\* prettyGitURL(u) = u, and hence prettyGitURL(prettyGitURL(u)) = prettyGitURL(u).
C18_CanonicalIsFixedPoint ==
    (IsCanonical(unit.arg) /\ unit.once # Pending) =>
        /\ unit.once = unit.arg
        /\ unit.twice # Pending => unit.twice = unit.once

\* u without its trailing '.git'
StripGitSuffix(u) == IF EndsWithGit(u) THEN SubSeq(u, 1, Len(u) - 1) ELSE u

\* C19: prettyGitURL removes '.git' only when it is the trailing suffix of the
\* reference: every other occurrence of '.git' is still there in the result.
C19_OnlyTrailingGitRemoved ==
    (IsText(unit.arg) /\ unit.once # Pending) =>
        /\ Occurrences(unit.once, ".git") = Occurrences(StripGitSuffix(unit.arg), ".git")
        /\ EndsWithGit(unit.once) <=> EndsWithGit(StripGitSuffix(unit.arg))

\* the host a shorthand stands for
ShorthandHost(h) ==
    CASE h = "github" -> "github.com" [] h = "gitlab" -> "gitlab.com" [] OTHER -> "bitbucket.org"

\* the tokens of the ten patterns prettyGitURL replaces
PatternTokens == { "git+", "git@", "git://", ":", ".git" }

\* the canonical https://<host>/<owner>/<repo> of a reference in a known shape,
\* the reference itself when it has none of the shapes
Canonical(u) ==
    CASE Len(u) >= 5 /\ SubSeq(u, 1, 2) = << "git+", "https://" >> /\ u[4] = "/" /\ EndsWithGit(u) ->
            << "https://" >> \o SubSeq(u, 3, Len(u) - 1)
      [] Len(u) >= 4 /\ u[1] = "git@" /\ u[3] = ":" /\ EndsWithGit(u) ->
            << "https://", u[2], "/" >> \o SubSeq(u, 4, Len(u) - 1)
      [] Len(u) >= 4 /\ u[1] = "git://" /\ u[3] = "/" /\ EndsWithGit(u) ->
            << "https://" >> \o SubSeq(u, 2, Len(u) - 1)
      [] Len(u) >= 3 /\ u[1] \in RepoShorthands /\ u[2] = ":" ->
            << "https://", ShorthandHost(u[1]), "/" >> \o SubSeq(u, 3, Len(u))
      [] OTHER -> u

HasKnownShape(u) == IsText(u) /\ Canonical(u) # u

MatchesNoPattern(u) == IsText(u) /\ \A k \in 1..Len(u) : u[k] \notin PatternTokens

\* C20: for a reference in a known shape (git+https://host/o/r.git, git@host:o/r.git,
\* git://host/o/r.git, github:o/r, gitlab:o/r, bitbucket:o/r) prettyGitURL returns the
\* canonical https://<host>/<owner>/<repo>; a string matching none of the patterns
\* is returned unchanged, and null yields null.
C20_KnownShapesBecomeCanonical ==
    unit.once # Pending =>
        /\ HasKnownShape(unit.arg) => unit.once = Canonical(unit.arg)
        /\ (IsText(unit.arg) /\ MatchesNoPattern(unit.arg)) => unit.once = unit.arg
        /\ unit.arg = Null => unit.once = Null

\* ------------------------------------------------------------------------
\* Properties of validateLicenseURL (under ValidateSpec)

\* C13: once a record's validated flag is true or false, a call of validateLicenseURL
\* on that record returns the stored verdict, sends no probe request and changes no
\* field of the record.
C13_StoredVerdictReturned ==
    [][ \A i \in Ids :
            ( /\ pc[i] = "caller"
              /\ pc'[i] # "caller"
              /\ items[i].licenseUrlIsValid # "null" )
            => /\ pc'[i] = IF items[i].licenseUrlIsValid = "true"
                           THEN "returnedTrue" ELSE "returnedFalse"
               /\ items'[i] = items[i]
               /\ requests'[i] = requests[i] ]_vars

\* a call on a record whose flag is false has returned false without a request
C13_Witness ==
    \E i \in Ids :
        /\ pc[i] = "returnedFalse"
        /\ items[i].licenseUrlIsValid = "false"
        /\ requests[i] = 0

\* ------------------------------------------------------------------------
\* Properties of validateLicenseName (under NameValidatorSpec) and of the license field

\* an identifier of the allow-list is a (case-sensitive) part of the string
HasAllowListed(v) == \E k \in 1..Len(v) : v[k] \in LicenseTypes

\* the string contains a slash, a quote or a colon
HasPunctuation(v) == \E k \in 1..Len(v) : v[k] \in InvalidLicenseCharacters

\* C21: validateLicenseName discards a declared license string exactly when no
\* allow-listed identifier is a case-sensitive substring of it and it contains a slash,
\* quote or colon; every other string is returned unchanged.
C21_DiscardedIffImplausible ==
    (IsText(unit.arg) /\ unit.once # Pending) =>
        unit.once = IF ~HasAllowListed(unit.arg) /\ HasPunctuation(unit.arg)
                    THEN Undefined
                    ELSE unit.arg

HoldsApiLicense(i) ==
    /\ apiCalls[i] > 0
    /\ Truthy(RepoLicenseOf(Env(i).api).license)
    /\ items[i].license = RepoLicenseOf(Env(i).api).license

\* C23: a license string that a record holds from the hosting API has passed the
\* license-name acceptance filter: the filter returns it unchanged.
C23_ApiLicenseIsFiltered ==
    \A i \in Ids : HoldsApiLicense(i) => validateLicenseName(items[i].license) = items[i].license

\* ------------------------------------------------------------------------
\* Records do not interfere (under Spec)

\* the code an invocation runs when the call it awaits settles
SoloStep(s) ==
    CASE s.pc = "pathExists" -> AfterPathExists(s)
      [] s.pc = "readJSON" -> AfterReadJSON(s)
      [] s.pc = "registry" -> AfterRegistry(s)
      [] s.pc = "api" -> AfterApi(s)
      [] s.pc = "ping" -> AfterPing(s, ping(ServerAnswer(s.env.server, s.ctx.url, s.requests)))
      [] s.pc = "backoff" -> AfterBackoff(s)
      [] s.pc = "wait200" -> AfterWait200(s)
      [] s.pc = "pubFetch" -> AfterPubFetch(s)
      [] s.pc = "pubPage" -> AfterPubPage(s)
      [] OTHER -> s

\* an invocation run to its end with no other invocation in between
RECURSIVE Solo(_)
Solo(s) ==
    IF s.pc \in {"finish", "crashed"} THEN s
    ELSE IF s.pc = "ping" /\ s.ctx.tryCount >= MaxHops
            /\ IsString(ping(ServerAnswer(s.env.server, s.ctx.url, s.requests)).result)
    THEN s
    ELSE Solo(SoloStep(s))

\* the fields record i ends with when it is resolved alone, with the hosting API
\* switched on or off at its start
SoloItem(i, api) ==
    Solo(StartWorker(
        [env |-> Env(i),
         item |-> NewQueueItem(world.projectType, deps[i],
                               MergedValue(world.rawDeps, world.rawGit, deps[i])),
         ctx |-> NoCtx, pc |-> "queued", useGithubAPI |-> api, postCommandLog |-> <<>>,
         requests |-> 0, apiCalls |-> 0, registryCalls |-> 0])).item

\* C24: the final fields of a completed record are those it gets when it is resolved
\* alone under the same external responses, whatever the other records did and in
\* whatever order their steps were taken.
C24_FinalFieldsAsAlone ==
    \A i \in Ids : pc[i] = "done" => items[i] = SoloItem(i, world.apiAvailable)

\* C24 as amended: the final fields of a completed record depend on the other records
\* only through the process-wide API flag: a record that asked the hosting API ends
\* as it does alone with the API on, and a record that did not ask it ends as it does
\* alone with the API off.
C24_FinalFieldsUpToApiFlag ==
    \A i \in Ids : pc[i] = "done" => items[i] = SoloItem(i, apiCalls[i] > 0)

\* a finished run in which a record skipped the hosting API after another record's
\* API error, and so ended differently from how it ends alone
C24_Witness ==
    /\ Drained
    /\ world.apiAvailable
    /\ \E i \in Ids : apiCalls[i] = 0 /\ items[i] # SoloItem(i, TRUE)

\* ------------------------------------------------------------------------
\* The report and the summary (under Spec)

\* the record whose invocation completes in this step
Completing == CHOOSE i \in Ids : pc[i] # "done" /\ pc'[i] = "done"

\* the place of record x in the sequence seq
PlaceIn(seq, x) == CHOOSE k \in 1..Len(seq) : seq[k] = x

\* the names are ascending along the sorted results
Ascending ==
    \A j, k \in 1..Len(result') :
        j < k => NameRank(items'[result'[j]].name) <= NameRank(items'[result'[k]].name)

\* records of equal name stand in the order in which they were appended to the results
TiesKeepOrder ==
    LET appended == Append(result, Completing)
    IN \A j, k \in 1..Len(result') :
           (j < k /\ items'[result'[j]].name = items'[result'[k]].name)
               => PlaceIn(appended, result'[j]) < PlaceIn(appended, result'[k])

\* C25: when the drain callback runs, the report lists every completed record once,
\* in ascending order of name whatever the order of completion, and records of equal
\* name in the order in which they were appended to the results.
C25_ReportSortedStable ==
    [][drains' = drains + 1 =>
        /\ Len(report') = Len(result) + 1
        /\ \A k \in 1..Len(report') : report'[k].name = items'[result'[k]].name
        /\ { result'[k] : k \in 1..Len(result') } =
               { result[k] : k \in 1..Len(result) } \cup { Completing }
        /\ Ascending
        /\ TiesKeepOrder]_vars

\* the completed records that hold a license, and those that hold none
Licensed == { i \in Ids : pc[i] = "done" /\ ~IsNullish(items[i].license) }
Unlicensed == { i \in Ids : pc[i] = "done" /\ IsNullish(items[i].license) }

\* C26: when the drain callback has run, the summary counts as successful exactly the
\* records whose license is not null, as unsuccessful exactly the others, and the
\* total is the sum of both and the number of processed records.
C26_SummaryCountsLicenses ==
    Drained =>
        /\ summary.successful = Cardinality(Licensed)
        /\ summary.unsuccessful = Cardinality(Unlicensed)
        /\ summary.total = summary.successful + summary.unsuccessful
        /\ summary.total = Len(result)
        /\ summary.total = Cardinality(Ids)

\* a finished run with a record of each kind
C26_Witness == Drained /\ summary.successful > 0 /\ summary.unsuccessful > 0

\* ------------------------------------------------------------------------
\* The ignore file (under Spec)

\* C27: a dependency whose name the ignore file matches is never enqueued: no record
\* exists for it, hence no file read, registry, API or probe call is made for it, no
\* task waits or runs for it, and no entry of the results or of the report is its.
C27_IgnoredNeverProcessed ==
    /\ \A i \in Ids : deps[i] \notin world.ignored
    /\ \A k \in 1..Len(tasks) : tasks[k] \in Ids /\ deps[tasks[k]] \notin world.ignored
    /\ \A i \in running : i \in Ids /\ deps[i] \notin world.ignored
    /\ \A k \in 1..Len(result) : result[k] \in Ids /\ deps[result[k]] \notin world.ignored
    /\ Drained =>
           /\ Len(report) = Len(result)
           /\ \A k \in 1..Len(report) : report[k].name \notin world.ignored

\* a finished run of a project with an ignored dependency and one that is not ignored
C27_Witness ==
    /\ Drained
    /\ \E k \in 1..Len(world.rawDeps) : world.rawDeps[k] \in world.ignored
    /\ Len(report) > 0

\* ------------------------------------------------------------------------
\* The order of the probes of one record (under Spec)

\* the request record i waits for is answered with a success
SucceedsNow(i) ==
    /\ pc[i] = "ping"
    /\ ping(ServerAnswer(Env(i).server, ctx[i].url, requests[i])).result = BoolTrue

\* a probe of record i has succeeded: the record holds the URL the probe found
ProbeSucceeded(i) == isAValidUrl(items[i].licenseUrl) /\ items[i].licenseUrl # DownloadURL

\* this step issues a new probe for record i (not a redirect or a retry of one)
NewProbe(i) == requests'[i] = requests[i] + 1 /\ ctx'[i].tryCount = 0

\* the new probe is the next one of the declared order: the next branch of the same
\* file name, or the first branch of the next file name, or the first branch of a
\* new sweep
NextInOrder(i) ==
    IF ctx[i].stage = ctx'[i].stage
    THEN \/ ctx'[i].file = ctx[i].file /\ ctx'[i].branch = ctx[i].branch + 1
         \/ /\ ctx'[i].file = ctx[i].file + 1
            /\ ctx[i].branch = Len(PrimaryBranchNames)
            /\ ctx'[i].branch = 1
    ELSE ctx'[i].branch = 1 /\ (ctx'[i].stage # "local" => ctx'[i].file = 1)

\* C28: the probes of a record are issued in the declared order, file name after
\* file name and for each file name branch main then master, and once a probe of a
\* record has succeeded no further request is made for that record.
C28_FirstSuccessWins ==
    [][\A i \in Ids :
          /\ NewProbe(i) => NextInOrder(i)
          /\ (SucceedsNow(i) \/ ProbeSucceeded(i)) => requests'[i] = requests[i]]_vars

\* ------------------------------------------------------------------------
\* The local license file of an npm package (under Spec)

\* record i went past "if (queueItem.repositoryURL)" with a license file in its
\* install directory
HasLocalLicense(i) ==
    /\ Env(i).path = "npm"
    /\ pc[i] \notin {"queued", "pathExists", "readJSON", "registry", "crashed"}
    /\ Truthy(items[i].repositoryURL)
    /\ LocalLicenseFiles(i) # {}

\* the first name of LicenseFileNames found in the install directory of record i
FirstLocalFile(i) ==
    LicenseFileNames[CHOOSE f \in 1..Len(LicenseFileNames) :
                         /\ LicenseFileNames[f] \in Env(i).localFiles
                         /\ \A g \in 1..(f - 1) : LicenseFileNames[g] \notin Env(i).localFiles]

\* no request to the host of record i is answered with a success
NothingValidates(i) == Env(i).server \in {"none", "limited", "down", "broken"}

\* C29: a completed record with a license file in its install directory, none of
\* whose remote URLs can be validated, has the path of the local file as its
\* licenseUrl and no missing-license reason.
C29_LocalFileIsSuccess ==
    \A i \in Ids :
        (pc[i] = "done" /\ HasLocalLicense(i) /\ NothingValidates(i)) =>
            /\ items[i].licenseUrl = LocalLicensePath(items[i].parent, FirstLocalFile(i))
            /\ items[i].missingLicenseReason = "none"

\* C30: for a record of the npm path with a license file in its install directory,
\* whether or not its remote URL validated, no hosting-API request is made and the
\* remote sweep over the license file names does not run.
C30_WebOnlyWithoutLocalFile ==
    \A i \in Ids : HasLocalLicense(i) => apiCalls[i] = 0 /\ ctx[i].stage # "web"

\* ------------------------------------------------------------------------
\* A package without a manifest (under Spec)

\* the package of record i is resolved from node_modules and has no package.json there
ManifestAbsent(i) == Env(i).path = "npm" /\ Env(i).manifest = "absent"

\* the record as the enumerator created it
Enqueued(i) ==
    NewQueueItem(world.projectType, deps[i], MergedValue(world.rawDeps, world.rawGit, deps[i]))

\* C31: a record whose package has no manifest at its install location completes at
\* the answer of the existence check, with reason 'no-local' and validated flag
\* false; no registry, hosting-API or probe call is made for it, and every other
\* field (name, repositoryURL, license, licenseUrl, ...) is as the enumerator set it.
C31_AbsentManifestEndsAtOnce ==
    \A i \in Ids :
        ManifestAbsent(i) =>
            /\ pc[i] \in {"queued", "pathExists", "done"}
            /\ requests[i] = 0 /\ apiCalls[i] = 0 /\ registryCalls[i] = 0
            /\ items[i] = IF pc[i] = "done"
                          THEN [Enqueued(i) EXCEPT !.licenseUrlIsValid = "false",
                                                   !.missingLicenseReason = "no-local"]
                          ELSE Enqueued(i)

\* a record without a manifest has completed
C31_Witness == \E i \in Ids : ManifestAbsent(i) /\ pc[i] = "done"

\* ------------------------------------------------------------------------
\* Who writes a record (under Spec)

\* record j is in the results
InResults(j) == \E k \in 1..Len(result) : result[k] = j

\* something of record j or of its invocation changes in this step
Touched(j) ==
    \/ items'[j] # items[j]
    \/ pc'[j] # pc[j]
    \/ ctx'[j] # ctx[j]
    \/ requests'[j] # requests[j]
    \/ apiCalls'[j] # apiCalls[j]
    \/ registryCalls'[j] # registryCalls[j]

\* C32: in every step the fields of at most one started record change, and they
\* change together with the position of that record's own invocation; a record not
\* yet started changes only in the step that starts its invocation; and a record
\* that is in the results never changes again.
C32_OnlyOwnRecordWritten ==
    [][\A j \in Ids :
          /\ InResults(j) => items'[j] = items[j]
          /\ (pc[j] = "queued" /\ items'[j] # items[j]) => pc'[j] # "queued"
          /\ (pc[j] # "queued" /\ items'[j] # items[j]) =>
                 /\ pc'[j] # pc[j] \/ ctx'[j] # ctx[j]
                 /\ \A k \in Ids \ {j} : pc[k] # "queued" => ~Touched(k)]_vars

\* a record is in the results while another one, in flight, has had fields written
C32_Witness ==
    \E j, k \in Ids :
        /\ InResults(j)
        /\ pc[k] \notin {"queued", "done", "crashed"}
        /\ items[k] # Enqueued(k)

\* ------------------------------------------------------------------------
\* Outstanding external calls (under Spec)

\* the awaits of a resolver invocation
AwaitPoints ==
    { "pathExists", "readJSON", "registry", "api", "ping", "backoff", "wait200",
      "pubFetch", "pubPage" }

\* the records with an external call outstanding
Outstanding == { i \in Ids : pc[i] \in AwaitPoints }

\* the registry, hosting-API and probe requests made for record i so far
Issued(i) == requests[i] + apiCalls[i] + registryCalls[i]

\* C33: a record's invocation issues its next external call only in the step in
\* which the call it waits for settles (or in which it starts), one call per step,
\* so that every in-flight record waits for exactly one call; and at no moment are
\* more than 4 calls outstanding in the whole run.
C33_OneCallPerRecord ==
    [][ /\ \A i \in Ids :
              /\ Issued(i)' <= Issued(i) + 1
              /\ Issued(i)' # Issued(i) => pc[i] \in AwaitPoints \cup {"queued"}
        /\ Outstanding' \subseteq running'
        /\ \A i \in running' : pc'[i] \in AwaitPoints \cup {"crashed"}
        /\ Cardinality(Outstanding') <= 4 ]_vars

\* four calls are outstanding and a fifth record waits for a worker
C33_Witness == Cardinality(Outstanding) = 4 /\ \E i \in Ids : pc[i] = "queued"

\* ------------------------------------------------------------------------
\* The completion callback of a run (under Spec)

\* every enqueued record has reached the end of its invocation
AllEnded == Ids # {} /\ \A i \in Ids : pc[i] \in {"done", "crashed"}

Looping(i) == Env(i).server = "loop" /\ requests[i] > 0 /\ isAValidUrl(ctx[i].url)

\* C35: against a host that answers every request with a redirect carrying a
\* Location header, pingLicenseURL follows redirect after redirect and never returns:
\* every request made for the record belongs to its first probe, each one a hop
\* further, the record never leaves that call, and the drain callback never runs.
C35_RedirectLoopNeverReturns ==
    \A i \in Ids :
        Looping(i) =>
            /\ pc[i] = "ping"
            /\ ctx[i].sent = requests[i]
            /\ ctx[i].tryCount = requests[i] - 1
            /\ ctx[i].url = ctx[i].urlToCheck
            /\ ~InResults(i)
            /\ ~Drained

\* the chain has followed more redirects than the retry limit allows retries
C35_Witness == \E i \in Ids : Looping(i) /\ ctx[i].tryCount > MaxTries

\* ------------------------------------------------------------------------
\* Which API answers switch the API off (under Spec)

\* the hosting API has answered the request of record i with the 404 of a repository
\* without a license
NotFoundAnswered(i) == apiCalls[i] > 0 /\ pc[i] # "api" /\ Env(i).api = "notfound"

\* C36: once the hosting API has answered a record's request with any answer that
\* carries a message, be it the quota error or the 'Not Found' of a single
\* repository, the API is switched off and stays off, and the message is kept in the
\* post-run log.
C36_AnyApiMessageSwitchesOff ==
    \A i \in Ids :
        (apiCalls[i] > 0 /\ pc[i] # "api" /\ Env(i).api \in ApiErrors) =>
            /\ ~useGithubAPI
            /\ \E k \in 1..Len(postCommandLog) : postCommandLog[k] = ApiMessageOf(Env(i).api)

\* a repository without a license was asked about first, and a record with a github
\* repository that came to the API step later made no request
C36_Witness ==
    \E i, j \in Ids :
        /\ NotFoundAnswered(i)
        /\ pc[j] = "done" /\ apiCalls[j] = 0
        /\ Truthy(items[j].repositoryURL) /\ HasGithubRepoPath(items[j].repositoryURL)
        /\ Env(j).api = "license"

\* ------------------------------------------------------------------------
\* The names of the results (under Spec)

\* C37: when the drain callback has run, no two records of the results have the same
\* name, on the npm path and on the Dart path, where the name is the one taken from
\* the pub.dev metadata.
C37_ResultNamesDistinct ==
    Drained =>
        \A j, k \in 1..Len(result) :
            j # k => items[result[j]].name # items[result[k]].name

\* ------------------------------------------------------------------------
\* The candidate URLs (under Spec)

\* a probe of record i is under way
Probing(i) == pc[i] \in {"ping", "backoff", "wait200"}

\* the repository URL of record i names a branch: it contains /main/ or /master/
Hinted(i) ==
    \/ Includes(items[i].repositoryURL, <<"/", "main", "/">>)
    \/ Includes(items[i].repositoryURL, <<"/", "master", "/">>)

\* the candidate URL of the probe under way has the shape the claim gives
CandidateShape(i) ==
    LET repo == items[i].repositoryURL
        filename == LicenseFileNames[ctx[i].file]
        branch == PrimaryBranchNames[ctx[i].branch]
        seg == IF Includes(repo, <<"bitbucket.org">>) THEN "src" ELSE "blob"
    IN IF Hinted(i)
       THEN ctx[i].urlToCheck = repo \o <<"/", filename>>
       ELSE ctx[i].urlToCheck = repo \o <<"/", seg, "/", branch, "/", filename>>

\* C38: the candidate URL of every probe is {repo}/{seg}/{branch}/{filename}, with seg
\* 'src' for a repository URL containing 'bitbucket.org' and 'blob' otherwise, unless
\* the repository URL contains /main/ or /master/: then it is {repo}/{filename}, and
\* the probe of the second branch name requests the URL the first one requested.
C38_CandidateUrl ==
    [][\A i \in Ids :
          /\ Probing(i)' => CandidateShape(i)'
          /\ (NewProbe(i) /\ ctx'[i].branch > 1 /\ Hinted(i)) =>
                 /\ ctx'[i].file = ctx[i].file
                 /\ ctx'[i].urlToCheck = ctx[i].urlToCheck
                 /\ ctx'[i].url = ctx[i].urlToCheck]_vars

\* the second branch iteration of a repository URL that names a branch is under way
C38_Witness == \E i \in Ids : Probing(i) /\ Hinted(i) /\ ctx[i].branch = 2

\* ------------------------------------------------------------------------
\* Redirect hops and retries (under Spec)

\* the number of redirects the host of record i answers before the final URL, which
\* answers 429 to every request
HopsBefore429(i) ==
    CASE Env(i).server = "moved_limited" -> 1
      [] Env(i).server = "moved2_limited" -> 2
      [] Env(i).server = "moved3_limited" -> 3
      [] OTHER -> 0

\* the chain of record i has followed the redirects and is at the final URL
AtLimitedTarget(i) ==
    /\ Probing(i)
    /\ Env(i).server \in {"moved_limited", "moved2_limited", "moved3_limited"}
    /\ ctx[i].url = FinalURL

\* the retries still allowed after k hops
RetriesAfter(k) == IF k < 3 THEN 3 - k ELSE 0

\* the requests the chain of record i has sent to the final URL after the first one
RetriesMade(i) == ctx[i].sent - (HopsBefore429(i) + 1)

\* C39: redirect hops and retries share the attempt counter of pingLicenseURL: every
\* request of a chain, hop or retry, counts one attempt, so a 429 met after k hops
\* is retried at most 3 - k times, and not at all after three or more hops; the
\* chain then gives up.
C39_HopsAndRetriesShareCounter ==
    \A i \in Ids :
        /\ pc[i] \in {"ping", "backoff"} => ctx[i].tryCount = ctx[i].sent - 1
        /\ AtLimitedTarget(i) =>
               /\ RetriesMade(i) <= RetriesAfter(HopsBefore429(i))
               /\ pc[i] = "backoff" => RetriesMade(i) < RetriesAfter(HopsBefore429(i))
               /\ pc[i] = "wait200" => RetriesMade(i) = RetriesAfter(HopsBefore429(i))

\* after three hops the chain has met a 429 and has given up without a retry
C39_Witness ==
    \E i \in Ids :
        AtLimitedTarget(i) /\ HopsBefore429(i) = 3 /\ pc[i] = "wait200" /\ RetriesMade(i) = 0

\* ------------------------------------------------------------------------
\* The URL stored by a successful validation (under Spec)

\* the URLs a redirect of the model leads to
RedirectTargets == { FinalURL, FirstHopURL, SecondHopURL }

\* C40: in the step in which a validation of record i succeeds, the licenseUrl stored
\* on the record is the candidate URL that validateLicenseURL built, also when the
\* success was answered by the target of a redirect; no record ever holds the target
\* of a redirect as its licenseUrl.
C40_CandidateUrlIsStored ==
    [][\A i \in Ids :
          /\ (SucceedsNow(i) /\ Touched(i)) => items'[i].licenseUrl = ctx[i].urlToCheck
          /\ items'[i].licenseUrl \notin RedirectTargets]_vars

\* a validation succeeded at the target of a redirect and the record holds the
\* candidate URL
C40_Witness ==
    \E i \in Ids :
        /\ Moved(i)
        /\ ctx[i].url = FinalURL
        /\ pc[i] # "ping"
        /\ items[i].licenseUrl = ctx[i].urlToCheck
        /\ items[i].licenseUrl # FinalURL

====
